---- MODULE Spec2Model ----
(***************************************************************************)
(* A model of xsd2xml.py: GenXML walks the element declarations of a       *)
(* parsed XML schema and prints a sample document.                         *)
(*                                                                         *)
(* Python strings are sequences of symbols.  A symbol is one character     *)
(* ("{", "}", ":", "u", "v") or a run of ordinary characters the code      *)
(* never looks into ("language", "xmlns").  None, where a name may be      *)
(* absent, is the empty sequence: the schema library yields no empty name. *)
(* The recursion of node2xml/group2xml is an explicit stack of frames; an  *)
(* uncaught exception ends the run with err set and errAt naming the       *)
(* source line that raised.                                                *)
(***************************************************************************)
EXTENDS Integers, Sequences, FiniteSets, TLC

VARIABLES cfg, xsd, pc, stack, out, root, vals, err, errAt

vars == <<cfg, xsd, pc, stack, out, root, vals, err, errAt>>

(***************************************************************************)
(* Bounds of the model.                                                    *)
(***************************************************************************)
\* most children a model group declares
MaxChildren == 2
\* most entries of the schema's namespace table
MaxNs == 2
\* deepest stack of node2xml/group2xml frames before Python's recursion
\* limit (1000 interpreter frames by default) raises RecursionError
RecursionLimit == 5

(***************************************************************************)
(* Python string primitives.                                               *)
(***************************************************************************)
None == << >>

\* s.find(ch) for a single symbol: 0-based index of the first match, or -1
FindSym(s, ch) ==
    IF \E i \in 1..Len(s) : s[i] = ch
    THEN (CHOOSE i \in 1..Len(s) : s[i] = ch /\ \A j \in 1..(i - 1) : s[j] # ch) - 1
    ELSE -1

\* s.find(sub): 0-based index of the first occurrence of sub, or -1;
\* the empty string is found at 0
Find(s, sub) ==
    LET hits == {i \in 0..(Len(s) - Len(sub)) : SubSeq(s, i + 1, i + Len(sub)) = sub}
    IN  IF hits = {} THEN -1 ELSE CHOOSE i \in hits : \A j \in hits : i <= j

\* s[a:b] with Python's treatment of a negative or oversized index
PyIndex(s, i) == IF i < 0 THEN (IF Len(s) + i < 0 THEN 0 ELSE Len(s) + i)
                 ELSE (IF i > Len(s) THEN Len(s) ELSE i)
Slice(s, a, b) == SubSeq(s, PyIndex(s, a) + 1, PyIndex(s, b))
SliceFrom(s, a) == SubSeq(s, PyIndex(s, a) + 1, Len(s))

\* s.strip() of a string whose only blanks are the " " symbols at its ends
RECURSIVE Strip(_)
Strip(s) ==
    IF s = << >> THEN s
    ELSE IF Head(s) = " " THEN Strip(Tail(s))
    ELSE IF s[Len(s)] = " " THEN Strip(SubSeq(s, 1, Len(s) - 1))
    ELSE s

\* v.format(elem): every "{0}" replacement field becomes elem
RECURSIVE Format(_, _)
Format(v, elem) ==
    IF v = << >> THEN << >>
    ELSE (IF Head(v) = "{0}" THEN elem ELSE <<Head(v)>>) \o Format(Tail(v), elem)

(***************************************************************************)
(* Module constants.                                                       *)
(***************************************************************************)
UKN_VALUE == "UNKNOWN"

\* the dict keeps insertion order: a sequence of (key, value) items
DEFAULT_SCHEMAS ==
    << [k |-> << >>, v |-> <<"http://www.iata.org/IATA/2015/00/2020.2/", "{0}">>],
       [k |-> <<"xsi">>, v |-> <<"http://www.w3.org/2001/XMLSchema-instance">>],
       [k |-> <<"xsi", ":", "schemaLocation">>,
        v |-> <<"http://www.iata.org/IATA/2015/00/2020.2/", "{0}", " ../", "{0}", ".xsd">>] >>

\* valsmap(v): the hardcoded sample data, keyed by the type's local name
BuiltinValues ==
    (<<"decimal">> :> "10") @@ (<<"float">> :> "-42.217E11") @@
    (<<"double">> :> "+24.3e-3") @@ (<<"integer">> :> "176") @@
    (<<"positiveInteger">> :> "+3") @@ (<<"negativeInteger">> :> "-7") @@
    (<<"nonPositiveInteger">> :> "-34") @@ (<<"nonNegativeInteger">> :> "35") @@
    (<<"long">> :> "567") @@ (<<"int">> :> "109") @@ (<<"short">> :> "4") @@
    (<<"byte">> :> "2") @@ (<<"unsignedLong">> :> "94") @@
    (<<"unsignedInt">> :> "96") @@ (<<"unsignedShort">> :> "24") @@
    (<<"unsignedByte">> :> "17") @@
    (<<"dateTime">> :> "2020-12-17T09:30:47Z") @@ (<<"date">> :> "2020-04-12") @@
    (<<"gYearMonth">> :> "2020-04") @@ (<<"gYear">> :> "2020") @@
    (<<"duration">> :> "P2Y6M5DT12H35M30S") @@ (<<"dayTimeDuration">> :> "P1DT2H") @@
    (<<"yearMonthDuration">> :> "P2Y6M") @@ (<<"gMonthDay">> :> "--04-12") @@
    (<<"gDay">> :> "---02") @@ (<<"gMonth">> :> "--04") @@
    (<<"string">> :> "String") @@
    (<<"normalizedString">> :> "The cure for boredom is curiosity.") @@
    (<<"token">> :> "token") @@ (<<"language">> :> "en-US") @@
    (<<"NMTOKEN">> :> "A_BCD") @@ (<<"NMTOKENS">> :> "ABCD 123") @@
    (<<"NCName">> :> "_my.Element") @@
    (<<"ID">> :> "IdID") @@ (<<"IDREFS">> :> "IDrefs") @@
    (<<"ENTITY">> :> "prod557") @@ (<<"ENTITIES">> :> "prod557 prod563") @@
    (<<"QName">> :> "pre:myElement") @@ (<<"boolean">> :> "true") @@
    (<<"hexBinary">> :> "0FB8") @@ (<<"base64Binary">> :> "0fb8") @@
    (<<"anyURI">> :> "https://mixvel.com/") @@ (<<"notation">> :> "notation")

\* valsmap(self.vals): every assignment v[key] = value, onto the dict v
valsmap(v) == BuiltinValues @@ v

(***************************************************************************)
(* The schema model the xmlschema library hands to GenXML: what the code   *)
(* reads of it (names, occurrence bounds, classes, attributes, content,    *)
(* group children).  Elements Root, A and Rec; Rec is declared with the    *)
(* type of Root, so a content model that holds Rec is recursive.           *)
(***************************************************************************)
XS == <<"http://www.w3.org/2001/XMLSchema">>

ElemIds == {"Root", "A", "Rec"}

\* the types an element's text comes from, and every type an element may have
LeafTypes == {"string", "Code", "Anon", "List", "Union", "CText", "Weird"}
ElemTypes == LeafTypes \cup {"CGroup"}

Models == {<<"sequence">>, <<"choice">>, <<"all">>}

Ref(kind, id) == [kind |-> kind, id |-> id]

\* a qualified name in brace notation, {uri}local; local alone without a namespace
QName(uri, local) == IF uri = << >> THEN <<local>> ELSE <<"{">> \o uri \o <<"}", local>>

\* type(x).__name__ of a type object
ClassOf(t) ==
    CASE t \in {"string", "language"} -> "XsdAtomicBuiltin"
      [] t \in {"Code", "Anon", "AnonBase"} -> "XsdAtomicRestriction"
      [] t = "List" -> "XsdList"
      [] t = "Union" -> "XsdUnion"
      [] t \in {"CText", "CGroup"} -> "XsdComplexType"
      [] OTHER -> "XsdType"

\* isinstance(x, cls) along the library's class hierarchy
IsInstance(t, cls) ==
    \/ ClassOf(t) = cls
    \/ cls = "XsdSimpleType" /\
       ClassOf(t) \in {"XsdAtomicBuiltin", "XsdAtomicRestriction", "XsdList", "XsdUnion"}

\* x.name: the qualified name, None for an anonymous type
TypeName(t) ==
    CASE t \in {"string", "language"} -> QName(XS, t)
      [] t \in {"Code", "List", "Union", "CText", "CGroup"} -> QName(xsd.tns, t)
      [] OTHER -> None

\* x.base_type ("None": the type has none)
BaseType(t) ==
    CASE t = "Code" -> "string"
      [] t = "Anon" -> "AnonBase"
      [] t = "AnonBase" -> "string"
      [] OTHER -> "None"

\* XsdList.item_type and XsdUnion.member_types
ItemType(t) == "string"
MemberTypes(t) == <<"Code", "string">>

\* XsdComplexType.is_simple() is False of every complex type
IsSimple(t) == FALSE

\* XsdComplexType.content: a model group, or the simple type of a text content
ContentIsGroup(t) == t = "CGroup"
ContentType(t) == xsd.textContent
ContentGroup(t) == "g1"

\* the short prefix the library prints in a component's repr
PrefixedName(name) ==
    IF name[1] = "{"
    THEN LET x == FindSym(name, "}")
             ns == Slice(name, 1, x)
             hits == {i \in 1..Len(xsd.namespaces) : xsd.namespaces[i].v = ns}
             k == IF hits = {} THEN << >>
                  ELSE xsd.namespaces[CHOOSE i \in hits : \A j \in hits : i <= j].k
         IN  IF k = << >> THEN SliceFrom(name, x + 1) ELSE k \o <<":">> \o SliceFrom(name, x + 1)
    ELSE name

\* str(x) of a schema component (its repr), and of None
Str(t) ==
    IF t = "None" THEN <<"None">>
    ELSE <<ClassOf(t), "(name=">> \o
         (IF TypeName(t) = None THEN <<"None">>
          ELSE <<"'">> \o PrefixedName(TypeName(t)) \o <<"'">>) \o <<")">>

\* str(type(x)): the class object's repr
StrOfClass(t) == <<"<class '", "xmlschema.validators.", ClassOf(t), "'>">>

\* node.name, node.type, node.min_occurs, node.max_occurs, node.attributes
NodeName(ref) == QName(xsd.tns, ref.id)
NodeType(ref) == xsd.etype[ref.id]
MinOccurs(ref) == xsd.occurs[ref.id].min
MaxOccurs(ref) == xsd.occurs[ref.id].max
Attributes(ref) == IF IsInstance(NodeType(ref), "XsdComplexType") THEN xsd.attributes ELSE << >>

\* g.model and g._group
GroupModel(g) == xsd.groups[g].model
GroupChildren(g) == xsd.groups[g].children

(***************************************************************************)
(* GenXML's methods.                                                       *)
(***************************************************************************)
Line(kind, name, ns, attrs, text) ==
    [kind |-> kind, name |-> name, ns |-> ns, attrs |-> attrs, text |-> text]

\* read_template: the keys of the section named after the element, onto vals
read_template(v) ==
    IF cfg.elem \in DOMAIN cfg.template.sections
    THEN cfg.template.sections[cfg.elem] @@ v
    ELSE v

\* short_ns: the first prefix of the namespace table bound to ns, else ''
short_ns(ns) ==
    LET hits == {i \in 1..Len(xsd.namespaces) : xsd.namespaces[i].v = ns}
    IN  IF hits = {} THEN << >>
        ELSE xsd.namespaces[CHOOSE i \in hits : \A j \in hits : i <= j].k

use_short_ns(name) ==
    IF name[1] = "{"
    THEN LET x == FindSym(name, "}")
             ns == Slice(name, 1, x)
             short == short_ns(ns)
         IN  IF short # << >> THEN short \o <<":">> \o SliceFrom(name, x + 1)
             ELSE SliceFrom(name, x + 1)
    ELSE name

\* remove_ns raises on None (name[0] of None is a TypeError)
remove_ns_raises(name) == name = None

remove_ns(name) ==
    IF name[1] = "{"
    THEN LET x == FindSym(name, "}") IN SliceFrom(name, x + 1)
    ELSE name

\* print_header's line
HeaderLine == Line("header", <<"<?xml version=\"1.0\" encoding=\"UTF-8\"?>">>, << >>, << >>, "")

\* ns_map_str: one pass of the loop over the table s, ns_all so far
RECURSIVE ns_map_loop(_, _)
ns_map_loop(s, ns_all) ==
    IF s = << >> THEN ns_all
    ELSE LET k == Head(s).k
             v == Head(s).v
             prefix == IF FindSym(k, ":") = -1 \/ k = << >>
                       THEN <<"xmlns">> \o (IF k # << >> THEN <<":">> \o k ELSE << >>)
                       ELSE k
         IN  IF Find(ns_all, v) = -1
             THEN ns_map_loop(Tail(s),
                      ns_all \o prefix \o <<"=\"">> \o Format(v, cfg.elem) \o <<"\"", " ">>)
             ELSE ns_map_loop(Tail(s), ns_all)

ns_map_str ==
    LET s == IF cfg.use_default_schemas THEN xsd.namespaces ELSE DEFAULT_SCHEMAS
    IN  Strip(ns_map_loop(s, << >>))

\* start_tag with the flag mistaken: root is left as it was
start_tag_keeps_root(name, attrs) ==
    [name |-> name, ns |-> IF root THEN <<ns_map_str>> ELSE << >>, attrs |-> attrs,
     root |-> root]

\* start_tag: the parts of the tag's text ('<' name [' ' ns] [' ' attrs] '>'), ns a
\* one-element sequence when the declarations are attached, and the flag afterwards
start_tag(name, attrs) ==
    [name |-> name, ns |-> IF root THEN <<ns_map_str>> ELSE << >>, attrs |-> attrs,
     root |-> FALSE]

\* genval: the sample value of a type or tag name
genval_raises(name) == remove_ns_raises(name)

genval(name) ==
    LET n == remove_ns(name)
    IN  IF n \in DOMAIN vals THEN vals[n] ELSE UKN_VALUE

\* gen_attrs: attributes is the ordered mapping name -> attribute, tname its type.name
gen_attrs_raises(attributes) ==
    \E i \in 1..Len(attributes) : genval_raises(attributes[i].tname)

RECURSIVE gen_attrs_loop(_)
gen_attrs_loop(attributes) ==
    IF attributes = << >> THEN << >>
    ELSE <<Head(attributes).name, "=\"", genval(Head(attributes).tname), "\"", " ">>
         \o gen_attrs_loop(Tail(attributes))

gen_attrs(attributes) == Strip(gen_attrs_loop(attributes))

\* print_comment: the lines printed for one comment
print_comment(comment) ==
    IF cfg.print_comments THEN <<Line("comment", comment, << >>, << >>, "")>> ELSE << >>

\* the group is walked in choice mode: the loop breaks after its first child
choice_mode_any_group(model) == cfg.enable_choice

choice_mode(model) == cfg.enable_choice /\ model = <<"choice">>

(***************************************************************************)
(* The inputs of a run: the command line (cfg) and the parsed schema (xsd).*)
(***************************************************************************)
SeqsUpTo(S, n) == UNION {[1..k -> S] : k \in 0..n}

Occurs(min, max) == [min |-> min, max |-> max]
Once == Occurs(<<1>>, <<1>>)

NoTemplate == [given |-> FALSE, sections |-> << >>]
Templates ==
    { NoTemplate,
      [given |-> TRUE,
       sections |-> (<<"Root">> :> ((<<"A">> :> "XYZ") @@ (<<"Root">> :> "RootText")))],
      [given |-> TRUE, sections |-> (<<"Root">> :> (<<"string">> :> "Text"))],
      [given |-> TRUE, sections |-> (<<"Other">> :> (<<"A">> :> "XYZ"))] }

Attr(name, tname) == [name |-> name, tname |-> tname]
AttributeSets ==
    { << >>,
      <<Attr("lang", QName(XS, "language"))>>,
      <<Attr("lang", QName(XS, "language")), Attr("code", None)>> }

\* the schema's namespace table: prefix -> URI, in declaration order
PlainNs == <<[k |-> <<"xs">>, v |-> XS]>>
Prefixes == {<< >>, <<"t">>, <<"xs">>}
Uris == {<<"u">>, <<"u", "v">>, <<"w">>}
NsTables ==
    {t \in SeqsUpTo([k : Prefixes, v : Uris], MaxNs) :
        \A i, j \in 1..Len(t) : i # j => t[i].k # t[j].k}

Group(model, children) == [model |-> model, children |-> children]
NoGroup == Group(<<"sequence">>, << >>)

Kids1 == {Ref("elem", "A"), Ref("elem", "Rec"), Ref("any", "any"), Ref("group", "g2")}
Kids2 == {Ref("elem", "A"), Ref("elem", "Rec")}

Config(elem, template, uds, choice, comments) ==
    [elem |-> elem, template |-> template, use_default_schemas |-> uds,
     enable_choice |-> choice, print_comments |-> comments]

Schema(ns, tns, rootType, leafType, occursA, attributes, textContent, g1, g2) ==
    [namespaces |-> ns, tns |-> tns, elements |-> {<<"Root">>},
     etype |-> [e \in ElemIds |-> IF e = "A" THEN leafType ELSE rootType],
     occurs |-> [e \in ElemIds \cup {"any"} |-> IF e = "A" THEN occursA ELSE Once],
     attributes |-> attributes, textContent |-> textContent,
     groups |-> [g \in {"g1", "g2"} |-> IF g = "g1" THEN g1 ELSE g2]]

\* content models of every shape, over leaves of a builtin type
InitWalk ==
    \E choice, comments \in BOOLEAN, leaf \in {"string"},
       m1, m2 \in Models,
       c1 \in SeqsUpTo(Kids1, MaxChildren), c2 \in SeqsUpTo(Kids2, MaxChildren) :
        /\ (\A i \in 1..Len(c1) : c1[i].kind # "group") => (c2 = << >> /\ m2 = <<"sequence">>)
        /\ cfg = Config(<<"Root">>, NoTemplate, FALSE, choice, comments)
        /\ xsd = Schema(PlainNs, << >>, "CGroup", leaf, Once, << >>, "string",
                        Group(m1, c1), Group(m2, c2))

\* every type, template, attribute set and occurrence bound, on Root or its one child
InitValues ==
    \E comments \in BOOLEAN, template \in Templates,
       rootType \in ElemTypes, leaf \in LeafTypes,
       prefix \in {<< >>, <<"t">>}, tns \in {<< >>, <<"u">>},
       attributes \in AttributeSets, textContent \in {"string", "Anon"},
       min \in {<<0>>, <<1>>}, max \in {None, <<1>>, <<2>>} :
        /\ rootType # "CGroup" => (leaf = "string" /\ min = <<1>> /\ max = <<1>>)
        /\ tns = << >> => prefix = << >>
        /\ cfg = Config(<<"Root">>, template, FALSE, FALSE, comments)
        /\ xsd = Schema(PlainNs \o (IF tns = << >> THEN << >> ELSE <<[k |-> prefix, v |-> tns]>>),
                        tns, rootType, leaf, Occurs(min, max), attributes, textContent,
                        Group(<<"sequence">>, <<Ref("elem", "A")>>), NoGroup)

\* every namespace table, under either choice of the declarations' source
InitNamespaces ==
    \E uds \in BOOLEAN, ns \in NsTables, tns \in {<< >>, <<"u">>} :
        /\ cfg = Config(<<"Root">>, NoTemplate, uds, FALSE, FALSE)
        /\ xsd = Schema(ns, tns, "string", "string", Once, << >>, "string", NoGroup, NoGroup)

\* an element name the schema does not declare
InitNoRoot ==
    \E comments \in BOOLEAN, template \in Templates :
        /\ cfg = Config(<<"Nope">>, template, FALSE, FALSE, comments)
        /\ xsd = Schema(PlainNs, << >>, "string", "string", Once, << >>, "string",
                        NoGroup, NoGroup)

\* GenXML.__init__
Init ==
    /\ InitWalk \/ InitValues \/ InitNamespaces \/ InitNoRoot
    /\ pc = "start"
    /\ stack = << >>
    /\ out = << >>
    /\ root = TRUE
    /\ vals = << >>
    /\ err = "none"
    /\ errAt = 0

(***************************************************************************)
(* run: its four statements, then the walk.                                *)
(***************************************************************************)
Frame(fn, ref, at) == [fn |-> fn, ref |-> ref, i |-> 0, pc |-> at]
Top == stack[Len(stack)]

\* an exception no one catches: what was printed stays printed
Raise(printed, e, line) ==
    /\ out' = out \o printed
    /\ err' = e
    /\ errAt' = line
    /\ pc' = "failed"
    /\ UNCHANGED <<cfg, xsd, stack, vals>>

\* a return: the frame is popped, and with the last frame the run is over
Return(printed) ==
    /\ out' = out \o printed
    /\ stack' = SubSeq(stack, 1, Len(stack) - 1)
    /\ pc' = IF Len(stack) = 1 THEN "done" ELSE pc
    /\ UNCHANGED <<cfg, xsd, vals, err, errAt>>

\* a call of node2xml or group2xml from line `line`, the caller's frame left as `caller`
Call(printed, caller, callee, line) ==
    IF Len(stack) >= RecursionLimit
    THEN Raise(printed, "RecursionError", line)
    ELSE /\ out' = out \o printed
         /\ stack' = SubSeq(stack, 1, Len(stack) - 1) \o <<caller, callee>>
         /\ UNCHANGED <<cfg, xsd, pc, vals, err, errAt>>

RunValsmap ==
    /\ pc = "start"
    /\ vals' = valsmap(vals)
    /\ pc' = "template"
    /\ UNCHANGED <<cfg, xsd, stack, out, root, err, errAt>>

RunReadTemplate ==
    /\ pc = "template"
    /\ vals' = IF cfg.template.given THEN read_template(vals) ELSE vals
    /\ pc' = "header"
    /\ UNCHANGED <<cfg, xsd, stack, out, root, err, errAt>>

RunPrintHeader ==
    /\ pc = "header"
    /\ out' = Append(out, HeaderLine)
    /\ pc' = "lookup"
    /\ UNCHANGED <<cfg, xsd, stack, root, vals, err, errAt>>

\* self.xsd.elements[self.elem], and the call of node2xml on it
RunNode2xml ==
    /\ pc = "lookup"
    /\ UNCHANGED root
    /\ IF cfg.elem \in xsd.elements
       THEN /\ stack' = <<Frame("node2xml", Ref("elem", "Root"), "enter")>>
            /\ pc' = "walk"
            /\ UNCHANGED <<cfg, xsd, out, vals, err, errAt>>
       ELSE Raise(<< >>, "KeyError", 257)

(***************************************************************************)
(* node2xml.                                                               *)
(***************************************************************************)
\* int(x or 1) of an occurrence bound
Or1(x) == IF x = None \/ x = <<0>> THEN 1 ELSE x[1]

\* lines 197-200
occurs_comments(ref) ==
    (IF Or1(MinOccurs(ref)) = 0
     THEN print_comment(<<"next 1 item is optional (minOccurs = 0)">>) ELSE << >>)
    \o (IF Or1(MaxOccurs(ref)) > 1
        THEN print_comment(<<"next 1 item is multiple (maxOccurs > 1)">>) ELSE << >>)

end_tag(name) == name

ElementLine(tag, value) == Line("element", tag.name, tag.ns, tag.attrs, value)

InNode2xml(at) ==
    /\ pc = "walk"
    /\ Top.fn = "node2xml"
    /\ Top.pc = at

\* print(start_tag(n, attrs) + genval(tp) + end_tag(n)): start_tag runs first, so
\* the flag is already cleared when genval raises
PrintElement(printed, n, attrs, tp) ==
    LET tag == start_tag(n, attrs)
    IN  /\ root' = tag.root
        /\ IF genval_raises(tp)
           THEN Raise(printed, "TypeError", 116)
           ELSE Return(printed \o <<ElementLine(tag, genval(tp))>>)

Node2xmlAny ==
    /\ InNode2xml("enter")
    /\ Top.ref.kind = "any"
    /\ Return(occurs_comments(Top.ref) \o <<Line("any", <<"_ANY_">>, << >>, << >>, "")>>)
    /\ UNCHANGED root

\* lines 206-216: a complex type whose content is no group
Node2xmlComplexText ==
    /\ InNode2xml("enter")
    /\ Top.ref.kind = "elem"
    /\ IsInstance(NodeType(Top.ref), "XsdComplexType")
    /\ IsSimple(NodeType(Top.ref)) \/ ~ContentIsGroup(NodeType(Top.ref))
    /\ LET t == NodeType(Top.ref)
           n == use_short_ns(NodeName(Top.ref))
           pre == occurs_comments(Top.ref)
       IN  IF IsSimple(t)
           THEN PrintElement(pre \o print_comment(<<"simple content">>), n, << >>,
                             StrOfClass(ContentType(t)))
           ELSE LET printed == pre \o print_comment(<<"complex content">>)
                IN  IF gen_attrs_raises(Attributes(Top.ref))
                    THEN Raise(printed, "TypeError", 116) /\ UNCHANGED root
                    ELSE PrintElement(printed, n, gen_attrs(Attributes(Top.ref)),
                                      TypeName(ContentType(t)))

\* lines 217-220: the start tag, then the content group
Node2xmlComplexGroup ==
    /\ InNode2xml("enter")
    /\ Top.ref.kind = "elem"
    /\ IsInstance(NodeType(Top.ref), "XsdComplexType")
    /\ ~IsSimple(NodeType(Top.ref)) /\ ContentIsGroup(NodeType(Top.ref))
    /\ LET n == use_short_ns(NodeName(Top.ref))
           tag == start_tag(n, << >>)
           printed == occurs_comments(Top.ref) \o print_comment(<<"complex content">>)
                      \o <<Line("open", tag.name, tag.ns, tag.attrs, "")>>
       IN  /\ root' = tag.root
           /\ Call(printed, [Top EXCEPT !.pc = "group"],
                   Frame("group2xml", Ref("group", ContentGroup(NodeType(Top.ref))), "enter"),
                   220)

\* line 221, after the group returned
Node2xmlEndTag ==
    /\ InNode2xml("group")
    /\ Return(<<Line("close", end_tag(use_short_ns(NodeName(Top.ref))), << >>, << >>, "")>>)
    /\ UNCHANGED root

\* lines 223-226
Node2xmlAtomic ==
    /\ InNode2xml("enter")
    /\ Top.ref.kind = "elem"
    /\ ~IsInstance(NodeType(Top.ref), "XsdComplexType")
    /\ IsInstance(NodeType(Top.ref), "XsdAtomicBuiltin")
    /\ PrintElement(occurs_comments(Top.ref), use_short_ns(NodeName(Top.ref)), << >>,
                    Str(NodeType(Top.ref)))

SimpleNotBuiltin(t) ==
    /\ ~IsInstance(t, "XsdComplexType")
    /\ ~IsInstance(t, "XsdAtomicBuiltin")
    /\ IsInstance(t, "XsdSimpleType")

\* lines 229-232
Node2xmlList ==
    /\ InNode2xml("enter")
    /\ Top.ref.kind = "elem"
    /\ SimpleNotBuiltin(NodeType(Top.ref))
    /\ IsInstance(NodeType(Top.ref), "XsdList")
    /\ PrintElement(occurs_comments(Top.ref) \o print_comment(<<"simpletype: list">>),
                    use_short_ns(NodeName(Top.ref)), << >>,
                    Str(ItemType(NodeType(Top.ref))))

\* lines 233-237
Node2xmlUnion ==
    /\ InNode2xml("enter")
    /\ Top.ref.kind = "elem"
    /\ SimpleNotBuiltin(NodeType(Top.ref))
    /\ ~IsInstance(NodeType(Top.ref), "XsdList")
    /\ IsInstance(NodeType(Top.ref), "XsdUnion")
    /\ PrintElement(occurs_comments(Top.ref) \o print_comment(<<"simpletype: union.">>)
                        \o print_comment(<<"default: using the 1st type">>),
                    use_short_ns(NodeName(Top.ref)), << >>,
                    Str(BaseType(MemberTypes(NodeType(Top.ref))[1])))

\* lines 238-243: the tag's own name first, the base type's name when that is unknown
Node2xmlRestricted ==
    /\ InNode2xml("enter")
    /\ Top.ref.kind = "elem"
    /\ SimpleNotBuiltin(NodeType(Top.ref))
    /\ ~IsInstance(NodeType(Top.ref), "XsdList")
    /\ ~IsInstance(NodeType(Top.ref), "XsdUnion")
    /\ LET n == use_short_ns(NodeName(Top.ref))
           tp == TypeName(BaseType(NodeType(Top.ref)))
           pre == occurs_comments(Top.ref)
       IN  IF genval(n) = UKN_VALUE /\ genval_raises(tp)
           THEN Raise(pre, "TypeError", 116) /\ UNCHANGED root
           ELSE LET value == IF genval(n) = UKN_VALUE THEN genval(tp) ELSE genval(n)
                    tag == start_tag(n, << >>)
                IN  /\ root' = tag.root
                    /\ Return(pre \o <<ElementLine(tag, value)>>)

\* lines 244-245: 'ERROR: unknown type: ' + node.type adds a type object to a str
Node2xmlUnknown ==
    /\ InNode2xml("enter")
    /\ Top.ref.kind = "elem"
    /\ ~IsInstance(NodeType(Top.ref), "XsdComplexType")
    /\ ~IsInstance(NodeType(Top.ref), "XsdAtomicBuiltin")
    /\ ~IsInstance(NodeType(Top.ref), "XsdSimpleType")
    /\ Raise(occurs_comments(Top.ref), "TypeError", 245)
    /\ UNCHANGED root

(***************************************************************************)
(* group2xml.                                                              *)
(***************************************************************************)
InGroup2xml(at) ==
    /\ pc = "walk"
    /\ Top.fn = "group2xml"
    /\ Top.pc = at

\* model = self.remove_ns(str(g.model))
ModelOf(g) == remove_ns(GroupModel(g))

\* lines 172-175
Group2xmlEmpty ==
    /\ InGroup2xml("enter")
    /\ Len(GroupChildren(Top.ref.id)) = 0
    /\ Return(print_comment(<<"empty">>))
    /\ UNCHANGED root

\* lines 177-181
Group2xmlStart ==
    /\ InGroup2xml("enter")
    /\ Len(GroupChildren(Top.ref.id)) # 0
    /\ LET model == ModelOf(Top.ref.id)
           y == ToString(Len(GroupChildren(Top.ref.id)))
       IN  /\ out' = out \o print_comment(<<"START:[">> \o model \o <<"]">>)
                  \o (IF choice_mode(model)
                      THEN print_comment(<<"next item is from a [choice] group with size=", y>>)
                      ELSE print_comment(<<"next ", y, " items are in a [">> \o model
                                         \o <<"] group">>))
           /\ stack' = [stack EXCEPT ![Len(stack)].pc = "loop"]
    /\ UNCHANGED <<cfg, xsd, pc, root, vals, err, errAt>>

\* lines 183-189: the next child, unless the loop broke after the one before
Group2xmlVisit ==
    /\ InGroup2xml("loop")
    /\ Top.i < Len(GroupChildren(Top.ref.id))
    /\ ~(Top.i >= 1 /\ choice_mode(ModelOf(Top.ref.id)))
    /\ LET ng == GroupChildren(Top.ref.id)[Top.i + 1]
       IN  Call(<< >>, [Top EXCEPT !.i = Top.i + 1],
                IF ng.kind = "group" THEN Frame("group2xml", ng, "enter")
                ELSE Frame("node2xml", ng, "enter"),
                IF ng.kind = "elem" THEN 185 ELSE IF ng.kind = "any" THEN 187 ELSE 189)
    /\ UNCHANGED root

\* lines 191-193: the break, or the end of the children
Group2xmlEnd ==
    /\ InGroup2xml("loop")
    /\ \/ Top.i = Len(GroupChildren(Top.ref.id))
       \/ Top.i >= 1 /\ choice_mode(ModelOf(Top.ref.id))
    /\ Return(print_comment(<<"END:[">> \o ModelOf(Top.ref.id) \o <<"]">>))
    /\ UNCHANGED root

Next ==
    \/ RunValsmap
    \/ RunReadTemplate
    \/ RunPrintHeader
    \/ RunNode2xml
    \/ Node2xmlAny
    \/ Node2xmlComplexText
    \/ Node2xmlComplexGroup
    \/ Node2xmlEndTag
    \/ Node2xmlAtomic
    \/ Node2xmlList
    \/ Node2xmlUnion
    \/ Node2xmlRestricted
    \/ Node2xmlUnknown
    \/ Group2xmlEmpty
    \/ Group2xmlStart
    \/ Group2xmlVisit
    \/ Group2xmlEnd

Spec == Init /\ [][Next]_vars

(***************************************************************************)
(* Properties.                                                             *)
(***************************************************************************)
\* the lines start_tag produced, and the line an element's start tag is on
TagLines == {i \in 1..Len(out) : out[i].kind \in {"element", "open"}}
RenderedName(e) == use_short_ns(NodeName(Ref("elem", e)))
TagLinesOf(e) == {i \in TagLines : out[i].name = RenderedName(e)}

\* C1: a group2xml call on a non-empty choice group visits, with enable_choice
\* on, its first child and no other before it returns; every other call visits
\* every child, in declaration order, before it returns.  This holds of a group
\* at any depth of the stack.
C1_ChoiceEmitsOneBranch ==
    [][(pc = "walk" /\ Top.fn = "group2xml" /\ Top.pc = "loop") =>
         LET g == xsd.groups[Top.ref.id]
             short == cfg.enable_choice /\ g.model = <<"choice">>
         IN  /\ Len(stack') > Len(stack) =>
                   /\ ~(short /\ Top.i >= 1)
                   /\ stack'[Len(stack')].ref = g.children[Top.i + 1]
                   /\ stack'[Len(stack)].i = Top.i + 1
             /\ Len(stack') < Len(stack) =>
                   Top.i = IF short THEN 1 ELSE Len(g.children)]_vars

\* a nested choice group of two or more children, in choice mode, about to return
\* after its first child
C1_Witness ==
    /\ pc = "walk"
    /\ Len(stack) >= 3
    /\ Top.fn = "group2xml" /\ Top.pc = "loop" /\ Top.ref.id = "g2"
    /\ cfg.enable_choice
    /\ xsd.groups["g2"].model = <<"choice">>
    /\ Len(xsd.groups["g2"].children) >= 2
    /\ Top.i = 1

\* C2: the namespace declarations are on the first start tag printed, which is the
\* root element's, and on no later one; the root flag is false from the first
\* start tag on.
C2_NamespacesOnRootTagOnly ==
    /\ root => TagLines = {}
    /\ \A i \in TagLines :
          /\ out[i].ns # << >> <=> \A j \in TagLines : i <= j
          /\ out[i].ns # << >> => /\ out[i].ns = <<ns_map_str>>
                                  /\ out[i].name = RenderedName("Root")

\* a finished run that printed the root's start tag and a descendant's
C2_Witness ==
    /\ pc = "done"
    /\ Cardinality(TagLines) >= 2
    /\ ~root
    /\ out[2].ns # << >>

\* the template's override for the tag of element e, if it has one
HasOverride(e) ==
    /\ cfg.template.given
    /\ cfg.elem \in DOMAIN cfg.template.sections
    /\ <<e>> \in DOMAIN cfg.template.sections[cfg.elem]
Override(e) == cfg.template.sections[cfg.elem][<<e>>]

\* C3: the text printed for an element whose tag name has an override in the
\* loaded template section is the override's value.
C3_OverrideTakesPrecedence ==
    \A e \in ElemIds : \A i \in TagLinesOf(e) :
        (out[i].kind = "element" /\ HasOverride(e)) => out[i].text = Override(e)

\* C4: genval raises nothing: no run ends in the TypeError of remove_ns (line 116),
\* which genval calls on its key.
C4_GenvalNeverRaises == ~(pc = "failed" /\ err = "TypeError" /\ errAt = 116)

\* C5: when the lookup of the root element fails, nothing has been printed.
C5_NoOutputBeforeLookupFailure == err = "KeyError" => out = << >>

\* C6: a node2xml step on an element whose type is of no recognized class prints
\* an error line and raises nothing.
C6_UnknownTypeReported ==
    [][(InNode2xml("enter") /\ Top.ref.kind = "elem"
          /\ ClassOf(NodeType(Top.ref)) \notin
                {"XsdComplexType", "XsdAtomicBuiltin", "XsdAtomicRestriction",
                 "XsdList", "XsdUnion"})
        => /\ err' = "none"
           /\ Len(out') > Len(out)
           /\ out'[Len(out')].kind = "error"]_vars

\* C7: the start tag of an element of complex type carries every attribute the
\* type declares, an xs:language attribute with the value en-US.
C7_StartTagCarriesAttributes ==
    \A e \in ElemIds : \A i \in TagLinesOf(e) :
        ClassOf(xsd.etype[e]) = "XsdComplexType" =>
            \A a \in 1..Len(xsd.attributes) :
                \E k \in 1..(Len(out[i].attrs) - 3) :
                    /\ out[i].attrs[k] = xsd.attributes[a].name
                    /\ out[i].attrs[k + 1] = "=\""
                    /\ xsd.attributes[a].tname = QName(XS, "language")
                          => out[i].attrs[k + 2] = "en-US"
                    /\ out[i].attrs[k + 3] = "\""

OptionalComment == Line("comment", <<"next 1 item is optional (minOccurs = 0)">>, << >>, << >>, "")

\* C8: with comments on, what node2xml prints for a node of minOccurs 0 starts
\* with the 'optional' comment; a node of minOccurs 1 or more gets no such comment.
C8_OptionalCommentPrinted ==
    [][(InNode2xml("enter") /\ cfg.print_comments) =>
         IF MinOccurs(Top.ref) = <<0>>
         THEN Len(out') > Len(out) /\ out'[Len(out) + 1] = OptionalComment
         ELSE \A i \in (Len(out) + 1)..Len(out') : out'[i] # OptionalComment]_vars

\* how many declarations of the namespace string give the URI uri
Declarations(str, uri) ==
    LET decl == <<"=\"">> \o uri \o <<"\"">>
    IN  Cardinality({i \in 0..(Len(str) - Len(decl)) :
                        SubSeq(str, i + 1, i + Len(decl)) = decl})

\* C9: the namespace string on the root's start tag declares every URI of the
\* table it was built from exactly once.
C9_EveryUriDeclaredOnce ==
    \A i \in TagLines : out[i].ns # << >> =>
        LET s == IF cfg.use_default_schemas THEN xsd.namespaces ELSE DEFAULT_SCHEMAS
        IN  \A n \in 1..Len(s) : Declarations(out[i].ns[1], Format(s[n].v, cfg.elem)) = 1

\* C10: the walk never descends without end: no run exhausts the interpreter's
\* stack (RecursionError); it completes, or stops on another error.
C10_WalkTerminates == err # "RecursionError"

====
